---- MODULE Spec2Model ----
(***************************************************************************)
(* embgen: the generation pipeline of src/embgen/generator.py              *)
(* (CodeGenerator), src/embgen/core.py (parse_and_render) and the          *)
(* selection check and exit status of src/embgen/cli.py (main).            *)
(*                                                                         *)
(* One behaviour is one generation run.  The request (entry point,         *)
(* selected single templates, selected multifile groups) is fixed in Init; *)
(* the file system is observed where the code observes it: the input file  *)
(* in parse_yaml, the output location in ensure_output_dir.                *)
(*                                                                         *)
(* The library functions have specifications of their own, each with its   *)
(* arguments and environment drawn in its Init:                            *)
(*   SpecDiscovery  discover_domains, detect_domain (discovery.py)         *)
(*   SpecTemplates  parse_template_name, discover_templates (templates.py) *)
(*   SpecConfig     validate, output_filename, render_to_file's path       *)
(*   SpecEquiv      render_multifile_group of core.py and of CodeGenerator *)
(*   SpecConcurrent two CodeGenerator.generate runs, interleaved           *)
(***************************************************************************)
EXTENDS Integers, Sequences, FiniteSets, TLC

\* ---------------------------------------------------------------- bounds
\* Selected single templates of a request.
MaxSingles == 2
\* Template descriptors of a request, over all its selected multifile groups.
MaxDescriptors == 3

\* ---------------------------------------------------------------- values
\* Python's None, for TemplateInfo.suffix and BaseConfig.file.
None == "<None>"

\* Output extensions of the modelled templates.
Exts == {"h", "py"}

\* Explicit suffix tokens (the \w+ group 4 of parse_template_name).
Suffixes == {"1"}

\* Python's ordering of the strings used as sort keys.
StrOrder == <<"", "1", "a-b", "c_multi", "h", "j2", "jinja", "py", "t">>

StrRank(s) == CHOOSE i \in 1..Len(StrOrder) : StrOrder[i] = s

\* TemplateInfo(output_ext, suffix); the template file is identified by the
\* descriptor's position in the request.
TemplateInfo == [output_ext : Exts, suffix : Suffixes \cup {None}]

\* key=lambda t: (t.output_ext, t.suffix or "")
SuffixOrEmpty(t) == IF t.suffix = None THEN "" ELSE t.suffix

SortKeyLE(a, b) ==
    \/ StrRank(a.output_ext) < StrRank(b.output_ext)
    \/ /\ a.output_ext = b.output_ext
       /\ StrRank(SuffixOrEmpty(a)) <= StrRank(SuffixOrEmpty(b))

\* A MultifileGroup.templates list as discover_templates leaves it: sorted.
IsSortedGroup(g) == \A i \in 1..(Len(g) - 1) : SortKeyLE(g[i], g[i + 1])

MultifileGroup(maxLen) ==
    {g \in UNION {[1..n -> TemplateInfo] : n \in 1..maxLen} : IsSortedGroup(g)}

\* Mutant of output_extensions: only the first descriptor's extension.
output_extensions_First(g) == <<g[1].output_ext>>

\* MultifileGroup.output_extensions
output_extensions(g) == [i \in 1..Len(g) |-> g[i].output_ext]

SeqRange(s) == {s[i] : i \in 1..Len(s)}

\* The selected single templates: a dict output_ext -> template name, in
\* insertion order; keys are distinct.
SingleSelections ==
    {s \in UNION {[1..n -> Exts] : n \in 0..MaxSingles} :
        \A i, j \in 1..Len(s) : i # j => s[i] # s[j]}

\* The selected multifile groups: a dict group name -> MultifileGroup, in
\* insertion order.
RECURSIVE GroupSelections(_)
GroupSelections(budget) ==
    {<<>>} \cup UNION {{<<g>> \o rest : rest \in GroupSelections(budget - Len(g))} :
                         g \in MultifileGroup(budget)}

\* ---------------------------------------------------------------- config
\* BaseConfig(name, file)
Configs == {[name |-> "Demo", file |-> None]}

Lower(s) == CASE s = "Demo" -> "demo" [] OTHER -> s

\* BaseConfig.output_filename: self.file or self.name.lower()
output_filename(c) ==
    IF c.file # None /\ c.file # "" THEN c.file ELSE Lower(c.name)

\* CommandsGenerator.name
GeneratorName == "commands"

\* commands_base.py is shipped in the commands templates directory.
CommandsBaseExists == TRUE

\* ---------------------------------------------------------------- state
VARIABLES
    entry,                \* "cli" (main), "core" (parse_and_render), "codegen" (CodeGenerator)
    pc,                   \* position of the run
    templates,            \* selected single templates (sequence of extensions)
    multifile_groups,     \* selected multifile groups (sequence of groups)
    input,                \* the input file as parse_yaml observed it, or NoInput
    valid,                \* "True" / "False": the domain's validate accepted the document; or None
    config,               \* the validated configuration, or NoConfig
    parent0,              \* kind of output_path.parent when ensure_output_dir ran
    out0,                 \* kind of output_path when ensure_output_dir ran
    out,                  \* kind of output_path now
    mkdirs,               \* number of mkdir calls
    files,                \* output directory: file name -> content
    filenames,            \* generate's filenames list
    generated_extensions, \* generate's generated_extensions set
    si,                   \* index of the next single template
    gi,                   \* index of the current multifile group
    ti,                   \* index of the next descriptor of the current group
    mf_filenames,         \* render_multifile_group's filenames list
    ext_counts,           \* render_multifile_group's ext_counts dict (0: absent)
    rendered,             \* log of render_to_file calls that wrote a file
    hookCalls,            \* log of post_generate calls
    extra_files,          \* what post_generate returned, or NoList
    err,                  \* the raised error, or None
    result                \* the returned list, or NoList

\* main (src/embgen/cli.py): the command line and the process's exit status
VARIABLES
    subcommand,           \* args.domain as main read it: "missing", "auto", "domain"; or None
    debug,                \* args.debug as the except block read it: "True" / "False"; or None
    exit_code             \* the exit status of the process, or NoExitCode

cliVars == <<subcommand, debug, exit_code>>

\* ------------------------------------------------- state of the library calls
\* discover_domains / detect_domain (src/embgen/discovery.py)
VARIABLES
    dEntry,               \* "discover_domains" or "detect_domain"
    dpc,                  \* position of the call
    builtin_order,        \* iterdir() order of the built-in domains directory
    extra_domains_dir,    \* the argument, or None
    environ,              \* os.environ[EMBGEN_DOMAINS_DIR], or None when unset
    user_dir,             \* iterdir() listing of the directory UserDir
    data,                 \* the parsed document: its top-level keys
    user_domains_path,    \* the extra location discover_domains resolved, or None
    domains,              \* the dict discover_domains returned, in insertion order
    di,                   \* detect_domain's position in domains.values()
    consulted,            \* the generators whose detect was called, in call order
    dReturn               \* what detect_domain returned, or NoGenerator

discVars == <<dEntry, dpc, builtin_order, extra_domains_dir, environ, user_dir,
              data, user_domains_path, domains, di, consulted, dReturn>>

\* parse_template_name / discover_templates (src/embgen/templates.py)
VARIABLES
    tEntry,               \* "parse_template_name" or "discover_templates"
    tpc,                  \* position of the call
    template_name,        \* parse_template_name's argument: the tokens between dots
    parsed,               \* what parse_template_name returned, or NoParse
    template_dir,         \* iterdir() of the templates directory
    single_templates,     \* discover_templates' first dict, in insertion order
    discovered_groups     \* discover_templates' second dict, in insertion order

tmplVars == <<tEntry, tpc, template_name, parsed, template_dir, single_templates,
              discovered_groups>>

\* validate, output_filename and render_to_file on one document
VARIABLES
    cpc,                  \* position: "start", "rejected", "validated", "written"
    document,             \* the document's name and file values
    validated,            \* the configuration model_validate returned, or NoDocument
    written_name,         \* config.output_filename as render_to_file read it
    output_file           \* render_to_file's output_file, relative to output_path

cfgVars == <<cpc, document, validated, written_name, output_file>>

\* A call of render_multifile_group in each of its two implementations on one
\* group: the MultifileGroup.templates list and the config passed to both,
\* and the filename list each returned (NoList before it returned).
VARIABLES mf_group, mf_config, core_names, codegen_names

eqVars == <<mf_group, mf_config, core_names, codegen_names>>

\* Two CodeGenerator instances running generate at the same time: frames[r]
\* holds the attributes and locals of run r, fs the directories they write to
\* (directory -> file name -> content), dirs the directories that exist.
VARIABLES frames, fs, dirs

conVars == <<frames, fs, dirs>>

\* The variables of the library calls, which a generation run leaves alone.
libVars == <<discVars, tmplVars, cfgVars, eqVars, conVars>>

vars == <<entry, pc, templates, multifile_groups, input, valid, config, parent0,
          out0, out, mkdirs, files, filenames, generated_extensions, si, gi, ti,
          mf_filenames, ext_counts, rendered, hookCalls, extra_files, err, result,
          libVars, cliVars>>

\* The request: fixed for the run.
request == <<entry, templates, multifile_groups>>

\* The locals of generate and render_multifile_group, and the files written.
runVars == <<filenames, generated_extensions, si, gi, ti, mf_filenames,
             ext_counts, rendered, hookCalls, extra_files, files>>

fsVars == <<parent0, out0, out, mkdirs>>

NoCounts == [e \in Exts |-> 0]

NoError == [type |-> None, msg |-> None]

\* The values of variables that hold nothing yet.
NoInput == [exists |-> FALSE, is_file |-> FALSE, suffix |-> None, parses |-> FALSE]

NoConfig == [name |-> None, file |-> None]

NoList == <<None>>

\* The process has not ended.
NoExitCode == -1

\* sys.exit(1)
ExitFailure == 1

\* The interpreter's exit status when an exception leaves main.
UncaughtExit == 1

\* main returns: the interpreter's exit status is 0.
ExitSuccess == 0

\* main has not run (or does not run: the library entry points).
CliIdle ==
    /\ subcommand = None
    /\ debug = None
    /\ exit_code = NoExitCode

\* A generator instance: where it was loaded from, its name property, its
\* class, and its detect method.
NoGenerator == [origin |-> None, name |-> None, class |-> None, detect |-> None]

\* No library call is in progress.
DiscIdle ==
    /\ dEntry = None
    /\ dpc = "idle"
    /\ builtin_order = <<>>
    /\ extra_domains_dir = None
    /\ environ = None
    /\ user_dir = <<>>
    /\ data = {}
    /\ user_domains_path = None
    /\ domains = <<>>
    /\ di = 1
    /\ consulted = <<>>
    /\ dReturn = NoGenerator

\* parse_template_name's tuple (group_name, output_extension, suffix).
NoParse == [group |-> None, ext |-> None, suffix |-> None]

TmplIdle ==
    /\ tEntry = None
    /\ tpc = "idle"
    /\ template_name = <<>>
    /\ parsed = NoParse
    /\ template_dir = <<>>
    /\ single_templates = <<>>
    /\ discovered_groups = <<>>

\* A string as the sequence of its characters; Absent is a missing field
\* (None after validation).
Absent == <<None>>

NoDocument == [name |-> Absent, file |-> Absent]

NoPath == [absolute |-> FALSE, parts |-> <<>>]

CfgIdle ==
    /\ cpc = "idle"
    /\ document = NoDocument
    /\ validated = NoDocument
    /\ written_name = Absent
    /\ output_file = NoPath

EqIdle ==
    /\ mf_group = <<>>
    /\ mf_config = NoConfig
    /\ core_names = NoList
    /\ codegen_names = NoList

ConIdle ==
    /\ frames = <<>>
    /\ fs = <<>>
    /\ dirs = {}

LibIdle == DiscIdle /\ TmplIdle /\ CfgIdle /\ EqIdle /\ ConIdle

Init ==
    /\ entry \in {"cli", "core", "codegen"}
    /\ pc = IF entry = "cli" THEN "main" ELSE "Parse"
    /\ templates \in SingleSelections
    /\ multifile_groups \in GroupSelections(MaxDescriptors)
    /\ input = NoInput
    /\ valid = None
    /\ config = NoConfig
    /\ parent0 = None
    /\ out0 = None
    /\ out = None
    /\ mkdirs = 0
    /\ files = <<>>
    /\ filenames = <<>>
    /\ generated_extensions = {}
    /\ si = 1
    /\ gi = 1
    /\ ti = 1
    /\ mf_filenames = <<>>
    /\ ext_counts = NoCounts
    /\ rendered = <<>>
    /\ hookCalls = <<>>
    /\ extra_files = NoList
    /\ err = NoError
    /\ result = NoList
    /\ LibIdle
    /\ CliIdle

\* ---------------------------------------------------------------- errors
\* Mutant of Raise: the failed run starts over at the parse step.
Raise_Retries(type, msg) ==
    /\ pc' = "Parse"
    /\ err' = [type |-> type, msg |-> msg]
    /\ result' = NoList

\* Mutant of Raise: the filenames collected so far are returned with the error.
Raise_ReturnsPartial(type, msg) ==
    /\ pc' = "Failed"
    /\ err' = [type |-> type, msg |-> msg]
    /\ result' = filenames

\* raise: the exception leaves every frame of the run, nothing is returned.
Raise(type, msg) ==
    /\ pc' = "Failed"
    /\ err' = [type |-> type, msg |-> msg]
    /\ result' = NoList

\* ---------------------------------------------------------------- parse_yaml
\* The input location as the file system presents it.
InputFiles ==
    {f \in [exists : BOOLEAN, is_file : BOOLEAN,
            suffix : {".yml", ".yaml", ".txt"}, parses : BOOLEAN] :
        /\ ~f.exists => ~f.is_file
        /\ ~f.is_file => ~f.parses}

YamlSuffixes == {".yml", ".yaml"}

\* Mutant of parse_yaml: the extension check is missing.
parse_yaml_AnySuffix(f) ==
    IF ~f.exists THEN [type |-> "FileNotFoundError", msg |-> "does not exist"]
    ELSE IF ~f.is_file THEN [type |-> "FileNotFoundError", msg |-> "is not a file"]
    ELSE IF ~f.parses THEN [type |-> "RuntimeError", msg |-> "Failed to load YAML file"]
    ELSE NoError

\* parse_yaml: the error it raises for input file f, NoError when it returns.
parse_yaml(f) ==
    IF ~f.exists THEN [type |-> "FileNotFoundError", msg |-> "does not exist"]
    ELSE IF ~f.is_file THEN [type |-> "FileNotFoundError", msg |-> "is not a file"]
    ELSE IF f.suffix \notin YamlSuffixes
        THEN [type |-> "FileNotFoundError", msg |-> "is not a YAML file"]
    ELSE IF ~f.parses THEN [type |-> "RuntimeError", msg |-> "Failed to load YAML file"]
    ELSE NoError

\* parse_and_render / generate_from_file: data = parse_yaml(input_path)
ParseYaml ==
    /\ pc = "Parse"
    /\ \E f \in InputFiles :
        /\ input' = f
        /\ IF parse_yaml(f) = NoError
              THEN /\ pc' = "Validate"
                   /\ UNCHANGED <<err, result>>
              ELSE Raise(parse_yaml(f).type, parse_yaml(f).msg)
    /\ UNCHANGED <<libVars, cliVars, request, valid, config, fsVars, runVars>>

\* ---------------------------------------------------------------- validate
\* Mutant of ValidationFailedMsg: the domain name is left out.
ValidationFailedMsg_NoName(name) == "Failed to validate"

\* raise RuntimeError(f"Failed to validate {self.generator.name}")
ValidationFailedMsg(name) == "Failed to validate " \o name

\* CodeGenerator.validate / the try block of parse_and_render: the domain's
\* validate returns a config or raises; a raise is wrapped in a RuntimeError.
Validate ==
    /\ pc = "Validate"
    /\ \E accepted \in BOOLEAN :
        /\ valid' = IF accepted THEN "True" ELSE "False"
        /\ IF accepted
              THEN /\ config' \in Configs
                   /\ pc' = "Prepare"
                   /\ UNCHANGED <<err, result>>
              ELSE /\ config' = config
                   /\ Raise("RuntimeError", ValidationFailedMsg(GeneratorName))
    /\ UNCHANGED <<libVars, cliVars, request, input, fsVars, runVars>>

\* ---------------------------------------------------------------- ensure_output_dir
PathKinds == {"missing", "file", "dir"}

\* output_path.parent and output_path as the file system can present them: a
\* path exists only inside a directory.
OutputLocations ==
    {l \in [parent : PathKinds, out : PathKinds] :
        l.out # "missing" => l.parent = "dir"}

\* The entries of an output directory that existed before the run.
OldFiles == [n \in {"keep.txt"} |-> [kind |-> "old", i |-> 0, j |-> 0]]

\* Mutant of ensure_output_dir: the parent is not looked at, and
\* mkdir(parents=True) creates it.
ensure_output_dir_NoParentCheck(l) == NoError

\* ensure_output_dir: the error raised for location l, NoError when it returns.
ensure_output_dir(l) ==
    IF l.parent = "missing"
        THEN [type |-> "FileNotFoundError", msg |-> "does not exist"]
    ELSE IF l.parent # "dir"
        THEN [type |-> "FileNotFoundError", msg |-> "is not a directory"]
    ELSE NoError

\* ensure_output_dir calls mkdir when it raised nothing and the path is missing.
CallsMkdir(l) == ensure_output_dir(l) = NoError /\ l.out = "missing"

\* Mutant of AfterSingles: the hook runs before the multifile groups.
AfterSingles_SkipGroups == "PostGenerate"

\* The position after the loop over the single templates.
AfterSingles == IF Len(multifile_groups) > 0 THEN "RenderMultifiles" ELSE "PostGenerate"

\* The position after ensure_output_dir: the first loop with an iteration.
AfterPrepare == IF Len(templates) > 0 THEN "RenderSingles" ELSE AfterSingles

EnsureOutputDir ==
    /\ pc = "Prepare"
    /\ \E l \in OutputLocations :
        /\ parent0' = l.parent
        /\ out0' = l.out
        /\ files' = IF l.out = "dir" THEN OldFiles ELSE <<>>
        /\ IF ensure_output_dir(l) = NoError
              THEN /\ out' = IF CallsMkdir(l) THEN "dir" ELSE l.out
                   /\ mkdirs' = IF CallsMkdir(l) THEN mkdirs + 1 ELSE mkdirs
                   /\ pc' = AfterPrepare
                   /\ UNCHANGED <<err, result>>
              ELSE /\ out' = l.out
                   /\ mkdirs' = mkdirs
                   /\ Raise(ensure_output_dir(l).type, ensure_output_dir(l).msg)
    /\ UNCHANGED <<libVars, cliVars, request, input, valid, config, filenames,
                   generated_extensions, si, gi, ti, mf_filenames, ext_counts,
                   rendered, hookCalls, extra_files>>

\* ---------------------------------------------------------------- render_to_file
\* "if suffix:" of render_to_file: None and the empty string are falsy.
Truthy(suffix) == suffix # None /\ suffix # ""

\* The filename render_to_file writes.
Filename(c, output_ext, suffix) ==
    IF Truthy(suffix)
        THEN output_filename(c) \o "_" \o suffix \o "." \o output_ext
        ELSE output_filename(c) \o "." \o output_ext

\* open(output_file, "w") needs the output location to be a directory.
CanWrite == out = "dir"

\* The file system after render_to_file wrote content under name.
WriteFile(name, content) == [n \in DOMAIN files \cup {name} |->
                                IF n = name THEN content ELSE files[n]]

\* What can raise inside render_to_file: the template engine (get_template,
\* render) or the write (open, write).
RenderErrors == {"TemplateError", "OSError"}

\* ---------------------------------------------------------------- RenderSingles
\* for output_ext, template_name in templates.items(): one iteration.
RenderSingle ==
    /\ pc = "RenderSingles"
    /\ si <= Len(templates)
    /\ CanWrite
    /\ LET output_ext == templates[si]
           filename   == Filename(config, output_ext, None)
           content    == [kind |-> "single", i |-> si, j |-> 0]
       IN /\ files' = WriteFile(filename, content)
          /\ rendered' = Append(rendered, [name |-> filename, ext |-> output_ext,
                                           template |-> content])
          /\ filenames' = Append(filenames, filename)
          /\ generated_extensions' = generated_extensions \cup {output_ext}
    /\ si' = si + 1
    /\ pc' = IF si = Len(templates) THEN AfterSingles ELSE pc
    /\ UNCHANGED <<libVars, cliVars, request, input, valid, config, fsVars, gi, ti, mf_filenames,
                   ext_counts, hookCalls, extra_files, err, result>>

\* An iteration of either loop in which render_to_file raises: the error
\* leaves generate, nothing is written by this call.
RenderFails ==
    /\ pc \in {"RenderSingles", "RenderMultifiles"}
    /\ \E e \in RenderErrors : Raise(e, "render_to_file")
    /\ UNCHANGED <<libVars, cliVars, request, input, valid, config, fsVars, runVars>>

\* ---------------------------------------------------------------- render_multifile_group
\* same_ext_templates = [t for t in multifile_group.templates if t.output_ext == ext]
SameExtCount(g, ext) == Cardinality({i \in 1..Len(g) : g[i].output_ext = ext})

\* str(n)
str(n) == ToString(n)

\* Mutant of CodegenSuffix: a descriptor without suffix is numbered even when it
\* is the only one of its extension.
CodegenSuffix_AlwaysNumbered(g, t, counts) ==
    LET ext == g[t].output_ext IN
    IF g[t].suffix = None
        THEN [suffix |-> str(counts[ext] + 1),
              counts |-> [counts EXCEPT ![ext] = @ + 1]]
        ELSE [suffix |-> g[t].suffix, counts |-> counts]

\* CodeGenerator.render_multifile_group, one iteration: the suffix passed to
\* render_to_file for descriptor t of group g, and ext_counts afterwards.
CodegenSuffix(g, t, counts) ==
    LET ext == g[t].output_ext IN
    IF g[t].suffix = None /\ SameExtCount(g, ext) > 1
        THEN [suffix |-> str(counts[ext] + 1),
              counts |-> [counts EXCEPT ![ext] = @ + 1]]
        ELSE [suffix |-> g[t].suffix, counts |-> counts]

\* Mutant of CoreSuffix: descriptors sharing an extension are numbered whether
\* or not they carry a suffix.
CoreSuffix_RenumbersExplicit(g, t, counts) ==
    LET ext == g[t].output_ext IN
    IF SameExtCount(g, ext) > 1
        THEN [suffix |-> str(counts[ext] + 1),
              counts |-> [counts EXCEPT ![ext] = @ + 1]]
        ELSE [suffix |-> g[t].suffix, counts |-> counts]

\* Mutant of CoreSuffix: of several suffix-less descriptors of an extension
\* only the second and later ones are numbered.
CoreSuffix_FirstUnnumbered(g, t, counts) ==
    LET ext == g[t].output_ext IN
    IF g[t].suffix = None
        THEN IF counts[ext] > 0
                THEN [suffix |-> IF SameExtCount(g, ext) > 1
                                    THEN str(counts[ext] + 1) ELSE None,
                      counts |-> [counts EXCEPT ![ext] = @ + 1]]
                ELSE [suffix |-> None,
                      counts |-> [counts EXCEPT ![ext] = 1]]
        ELSE [suffix |-> g[t].suffix, counts |-> counts]

\* core.render_multifile_group, one iteration.
CoreSuffix(g, t, counts) ==
    LET ext == g[t].output_ext IN
    IF g[t].suffix = None
        THEN IF counts[ext] > 0
                THEN [suffix |-> IF SameExtCount(g, ext) > 1
                                    THEN str(counts[ext] + 1) ELSE None,
                      counts |-> [counts EXCEPT ![ext] = @ + 1]]
                ELSE [suffix |-> IF SameExtCount(g, ext) > 1 THEN "1" ELSE None,
                      counts |-> [counts EXCEPT ![ext] = 1]]
        ELSE [suffix |-> g[t].suffix, counts |-> counts]

\* The implementation an entry point runs: main calls core.parse_and_render.
GroupSuffix(g, t, counts) ==
    IF entry = "codegen" THEN CodegenSuffix(g, t, counts) ELSE CoreSuffix(g, t, counts)

\* ---------------------------------------------------------------- RenderMultifiles
\* Mutant of Extend: the new names are put in front.
Extend_Prepend(list, more) == more \o list

\* filenames.extend(more)
Extend(list, more) == list \o more

\* for template_info in multifile_group.templates: one iteration; after the
\* last one render_multifile_group returns and generate extends filenames and
\* updates generated_extensions.
RenderMultifile ==
    /\ pc = "RenderMultifiles"
    /\ gi <= Len(multifile_groups)
    /\ CanWrite
    /\ LET g        == multifile_groups[gi]
           step     == GroupSuffix(g, ti, ext_counts)
           filename == Filename(config, g[ti].output_ext, step.suffix)
           content  == [kind |-> "multi", i |-> gi, j |-> ti]
           last     == ti = Len(g)
       IN /\ files' = WriteFile(filename, content)
          /\ rendered' = Append(rendered, [name |-> filename, ext |-> g[ti].output_ext,
                                           template |-> content])
          /\ IF last
                THEN /\ filenames' = Extend(filenames, Append(mf_filenames, filename))
                     /\ generated_extensions' =
                            generated_extensions \cup SeqRange(output_extensions(g))
                     /\ mf_filenames' = <<>>
                     /\ ext_counts' = NoCounts
                     /\ gi' = gi + 1
                     /\ ti' = 1
                     /\ pc' = IF gi = Len(multifile_groups) THEN "PostGenerate" ELSE pc
                ELSE /\ mf_filenames' = Append(mf_filenames, filename)
                     /\ ext_counts' = step.counts
                     /\ ti' = ti + 1
                     /\ UNCHANGED <<filenames, generated_extensions, gi, pc>>
    /\ UNCHANGED <<libVars, cliVars, request, input, valid, config, fsVars, si, hookCalls,
                   extra_files, err, result>>

\* ---------------------------------------------------------------- post_generate
\* CommandsGenerator.post_generate: the files it copies for generated_extensions.
post_generate(c, exts) ==
    IF "py" \notin exts THEN <<>>
    ELSE IF CommandsBaseExists THEN <<output_filename(c) \o "_base.py">>
    ELSE <<>>

\* extra_files = post_generate(config, output_path, generated_extensions);
\* filenames.extend(extra_files); return filenames
PostGenerate ==
    /\ pc = "PostGenerate"
    /\ hookCalls' = Append(hookCalls, [generated_extensions |-> generated_extensions,
                                       rendered |-> Len(rendered)])
    /\ LET extra == post_generate(config, generated_extensions) IN
       \/ /\ extra # <<>> => CanWrite
          /\ files' = IF extra = <<>> THEN files
                      ELSE WriteFile(extra[1], [kind |-> "hook", i |-> 0, j |-> 0])
          /\ extra_files' = extra
          /\ filenames' = Extend(filenames, extra)
          /\ result' = filenames'
          /\ pc' = "Done"
          /\ err' = err
       \/ /\ extra # <<>>
          /\ Raise("OSError", "post_generate")
          /\ UNCHANGED <<files, filenames, extra_files>>
    /\ UNCHANGED <<libVars, cliVars, request, input, valid, config, fsVars, generated_extensions,
                   si, gi, ti, mf_filenames, ext_counts, rendered>>

\* ---------------------------------------------------------------- main
\* main, args.domain == "auto": parse_yaml and detect_domain run before the
\* selection is looked at; neither is inside the try block.
CliAuto ==
    /\ pc = "main"
    /\ subcommand' = "auto"
    /\ \E f \in InputFiles, detected \in BOOLEAN :
        /\ input' = f
        /\ IF parse_yaml(f) # NoError
              THEN /\ Raise(parse_yaml(f).type, parse_yaml(f).msg)
                   /\ exit_code' = UncaughtExit
           ELSE IF ~detected
              THEN /\ Raise("SystemExit", "Could not auto-detect domain")
                   /\ exit_code' = ExitFailure
           ELSE /\ pc' = "select"
                /\ UNCHANGED <<err, result, exit_code>>
    /\ UNCHANGED <<libVars, debug, request, valid, config, fsVars, runVars>>

\* main, args.domain names a discovered domain.
CliDomain ==
    /\ pc = "main"
    /\ subcommand' = "domain"
    /\ pc' = "select"
    /\ UNCHANGED <<libVars, debug, exit_code, request, input, valid, config, fsVars,
                   runVars, err, result>>

\* main, no subcommand: if args.domain is None: ap.print_help(); sys.exit(1)
CliNoDomain ==
    /\ pc = "main"
    /\ subcommand' = "missing"
    /\ Raise("SystemExit", "usage")
    /\ exit_code' = ExitFailure
    /\ UNCHANGED <<libVars, debug, request, input, valid, config, fsVars, runVars>>

\* Mutant of NothingSelected: the test looks at a collection that is never empty.
NothingSelected_Never == Len(templates) = 0 /\ Len(multifile_groups) < 0

\* if not selected_templates and not selected_multifile
NothingSelected == Len(templates) = 0 /\ Len(multifile_groups) = 0

\* main: the selection check, then the call of parse_and_render.
CliSelect ==
    /\ pc = "select"
    /\ IF NothingSelected
          THEN /\ Raise("SystemExit", "No output formats specified")
               /\ exit_code' = ExitFailure
          ELSE /\ pc' = "Parse"
               /\ UNCHANGED <<err, result, exit_code>>
    /\ UNCHANGED <<libVars, subcommand, debug, request, input, valid, config, fsVars,
                   runVars>>

\* Mutant of ExceptExit: with the debug flag the error is swallowed.
ExceptExit_DebugSucceeds(d) == IF d THEN ExitSuccess ELSE ExitFailure

\* except Exception as e: with args.debug the error is raised again and
\* leaves main uncaught; without it, sys.exit(1).
ExceptExit(d) == IF d THEN UncaughtExit ELSE ExitFailure

\* main: parse_and_render raised inside the try block.
CliExcept ==
    /\ entry = "cli"
    /\ pc = "Failed"
    /\ exit_code = NoExitCode
    /\ \E d \in BOOLEAN :
        /\ debug' = IF d THEN "True" ELSE "False"
        /\ exit_code' = ExceptExit(d)
    /\ UNCHANGED <<libVars, subcommand, request, input, valid, config, fsVars, runVars,
                   pc, err, result>>

\* main: parse_and_render returned, and main returns.
CliReturn ==
    /\ entry = "cli"
    /\ pc = "Done"
    /\ exit_code = NoExitCode
    /\ exit_code' = ExitSuccess
    /\ UNCHANGED <<libVars, subcommand, debug, request, input, valid, config, fsVars,
                   runVars, pc, err, result>>

Next ==
    \/ CliAuto
    \/ CliDomain
    \/ CliNoDomain
    \/ CliSelect
    \/ CliExcept
    \/ CliReturn
    \/ RenderSingle
    \/ RenderMultifile
    \/ RenderFails
    \/ PostGenerate
    \/ ParseYaml
    \/ Validate
    \/ EnsureOutputDir


Spec == Init /\ [][Next]_vars

\* ------------------------------------------ no generation run in progress
\* The variables of the generation run while only a library function is
\* called.
PipelineIdle ==
    /\ entry = None
    /\ pc = "idle"
    /\ templates = <<>>
    /\ multifile_groups = <<>>
    /\ input = NoInput
    /\ valid = None
    /\ config = NoConfig
    /\ parent0 = None
    /\ out0 = None
    /\ out = None
    /\ mkdirs = 0
    /\ files = <<>>
    /\ filenames = <<>>
    /\ generated_extensions = {}
    /\ si = 1
    /\ gi = 1
    /\ ti = 1
    /\ mf_filenames = <<>>
    /\ ext_counts = NoCounts
    /\ rendered = <<>>
    /\ hookCalls = <<>>
    /\ extra_files = NoList
    /\ err = NoError
    /\ result = NoList
    /\ CliIdle

pipelineVars == <<entry, pc, templates, multifile_groups, input, valid, config,
                  parent0, out0, out, mkdirs, files, filenames,
                  generated_extensions, si, gi, ti, mf_filenames, ext_counts,
                  rendered, hookCalls, extra_files, err, result, cliVars>>

\* ------------------------------------------------------- domain discovery
\* Entries of a scanned user directory.
MaxCandidates == 2

\* The packages of src/embgen/domains.
BuiltinNames == {"commands", "registers", "testing"}

\* generator.name of the user packages that load.
UserNames == {"commands", "custom"}

\* A directory entry, by what the loop of _discover_domains_in_path does
\* with it:
\*   "not_package"   not a directory, or no __init__.py       (continue)
\*   "underscore"    its name starts with "_"                 (continue)
\*   "raises"        import or exec_module raises an Exception
\*   "no_generator"  the module has no attribute generator
\*   "name_raises"   reading generator.name raises an Exception
\*   "generator"     the module has a generator with a name
\* A generator of class "DomainGenerator" has a detect method that answers
\* "always" or "never" or raises; one of class "object" has only the name.
Skipped(load) ==
    [load |-> load, name |-> None, class |-> None, detect |-> None]

UserCandidates ==
    {Skipped(l) : l \in {"not_package", "underscore", "raises", "no_generator",
                         "name_raises"}}
    \cup [load : {"generator"}, name : UserNames, class : {"DomainGenerator"},
          detect : {"always", "never", "raises"}]
    \cup {[load |-> "generator", name |-> "custom", class |-> "object",
           detect |-> None]}

\* The package of a built-in domain: generator = <Name>Generator().
BuiltinCandidate(n) ==
    [load |-> "generator", name |-> n, class |-> "DomainGenerator", detect |-> n]

\* The locations an argument or the environment variable can name.
UserDir == "/user"
EnvDir == "/env"
MissingDir == "/nonexistent"

\* The directory of the environment's location: one package, as in
\* test_discover_with_env_var.
EnvDirListing ==
    <<[load |-> "generator", name |-> "envtest", class |-> "DomainGenerator",
       detect |-> "never"]>>

Listings(maxLen) ==
    UNION {[1..n -> UserCandidates] : n \in 0..maxLen}

\* iterdir() yields the entries in arbitrary order.
IterdirOrders ==
    {p \in [1..Cardinality(BuiltinNames) -> BuiltinNames] :
        \A i, j \in DOMAIN p : i # j => p[i] # p[j]}

\* The top-level keys of the parsed documents.
Documents == {{}, {"commands"}, {"regmap"}, {"items"}, {"commands", "regmap"}}

\* --- dict, in insertion order: a sequence of <<key, value>>
HasKey(d, k) == \E i \in 1..Len(d) : d[i][1] = k

\* d[k] = v: a present key keeps its position.
DictSet(d, k, v) ==
    IF HasKey(d, k)
    THEN [i \in 1..Len(d) |-> IF d[i][1] = k THEN <<k, v>> ELSE d[i]]
    ELSE Append(d, <<k, v>>)

\* Mutation of DictUpdate: a key already present keeps its value.
RECURSIVE DictUpdate_KeepExisting(_, _)
DictUpdate_KeepExisting(d, other) ==
    IF other = <<>> THEN d
    ELSE DictUpdate_KeepExisting(
             IF HasKey(d, Head(other)[1]) THEN d
             ELSE Append(d, Head(other)), Tail(other))

\* d.update(other)
RECURSIVE DictUpdate(_, _)
DictUpdate(d, other) ==
    IF other = <<>> THEN d
    ELSE DictUpdate(DictSet(d, Head(other)[1], Head(other)[2]), Tail(other))

\* Mutation of values: the reverse of the insertion order.
values_Reversed(d) == [i \in 1..Len(d) |-> d[Len(d) + 1 - i][2]]

\* d.values()
values(d) == [i \in 1..Len(d) |-> d[i][2]]

\* --- _discover_domains_in_path
\* module.generator, as found at the location of the given origin.
Instance(c, origin) ==
    [origin |-> origin, name |-> c.name, class |-> c.class, detect |-> c.detect]

\* Mutation of ScanEntry: an entry that raises discards what was found.
ScanEntry_AbortOnError(d, c, origin) ==
    IF c.load = "generator" THEN DictSet(d, c.name, Instance(c, origin))
    ELSE IF c.load \in {"raises", "name_raises"} THEN <<>>
    ELSE d

\* One iteration of the loop over iterdir(): the two continue statements,
\* the try block, and except Exception: pass.
ScanEntry(d, c, origin) ==
    IF c.load = "generator" THEN DictSet(d, c.name, Instance(c, origin)) ELSE d

RECURSIVE ScanEntries(_, _, _)
ScanEntries(d, listing, origin) ==
    IF listing = <<>> THEN d
    ELSE ScanEntries(ScanEntry(d, Head(listing), origin), Tail(listing), origin)

\* iterdir() of a location; <<>> as well when it does not exist or is not a
\* directory (the early return).
iterdir(path) ==
    CASE path = "builtin" -> [i \in 1..Len(builtin_order) |->
                                 BuiltinCandidate(builtin_order[i])]
      [] path = UserDir -> user_dir
      [] path = EnvDir -> EnvDirListing
      [] OTHER -> <<>>

_discover_domains_in_path(path) ==
    ScanEntries(<<>>, iterdir(path), IF path = "builtin" THEN "builtin" ELSE "user")

\* --- discover_domains
\* Mutation of ResolveUserDomainsPath: the environment variable comes first.
ResolveUserDomainsPath_EnvFirst(arg, env) ==
    IF env # None THEN env
    ELSE IF arg # None /\ arg # "" THEN arg
    ELSE None

\* if extra_domains_dir: ... elif EMBGEN_DOMAINS_DIR_ENV in os.environ: ...
ResolveUserDomainsPath(arg, env) ==
    IF arg # None /\ arg # "" THEN arg
    ELSE IF env # None THEN env
    ELSE None

discover_domains ==
    LET path == ResolveUserDomainsPath(extra_domains_dir, environ)
        builtin == _discover_domains_in_path("builtin")
    IN  IF path # None
        THEN DictUpdate(builtin, _discover_domains_in_path(path))
        ELSE builtin

DiscoverDomains ==
    /\ dEntry = "discover_domains"
    /\ dpc = "start"
    /\ user_domains_path' = ResolveUserDomainsPath(extra_domains_dir, environ)
    /\ domains' = discover_domains
    /\ dpc' = "returned"
    /\ UNCHANGED <<dEntry, builtin_order, extra_domains_dir, environ, user_dir,
                   data, di, consulted, dReturn>>
    /\ UNCHANGED <<pipelineVars, tmplVars, cfgVars, eqVars, conVars>>

\* --- detect_domain
\* generator.detect(data): the three built-in predicates, and the user's.
detect(g, doc) ==
    CASE g.detect = "commands" -> "commands" \in doc
      [] g.detect = "registers" -> "regmap" \in doc
      [] g.detect = "testing" ->
             "items" \in doc /\ "commands" \notin doc /\ "regmap" \notin doc
      [] g.detect = "always" -> TRUE
      [] OTHER -> FALSE

\* for generator in discover_domains(extra_domains_dir).values():
DetectDomain ==
    /\ dEntry = "detect_domain"
    /\ dpc = "start"
    /\ user_domains_path' = ResolveUserDomainsPath(extra_domains_dir, environ)
    /\ domains' = discover_domains
    /\ dpc' = "loop"
    /\ UNCHANGED <<dEntry, builtin_order, extra_domains_dir, environ, user_dir,
                   data, di, consulted, dReturn>>
    /\ UNCHANGED <<pipelineVars, tmplVars, cfgVars, eqVars, conVars>>

\* Mutant of DetectRaises: the loop catches what detect raises and goes on.
DetectRaises_Guarded(g) == FALSE

\* generator.detect(data) raises: the method itself does, or the object has
\* no detect method (AttributeError).
DetectRaises(g) == g.class # "DomainGenerator" \/ g.detect = "raises"

\* if generator.detect(data): return generator
\* There is no try block in the loop: what detect raises leaves detect_domain.
DetectConsult ==
    /\ dpc = "loop"
    /\ di <= Len(domains)
    /\ LET generator == values(domains)[di]
       IN  /\ consulted' = Append(consulted, generator)
           /\ IF DetectRaises(generator)
              THEN dpc' = "raised" /\ UNCHANGED <<di, dReturn>>
              ELSE IF detect(generator, data)
              THEN dpc' = "returned" /\ dReturn' = generator /\ UNCHANGED di
              ELSE di' = di + 1 /\ UNCHANGED <<dpc, dReturn>>
    /\ UNCHANGED <<dEntry, builtin_order, extra_domains_dir, environ, user_dir,
                   data, user_domains_path, domains>>
    /\ UNCHANGED <<pipelineVars, tmplVars, cfgVars, eqVars, conVars>>

\* return None
DetectNone ==
    /\ dpc = "loop"
    /\ di > Len(domains)
    /\ dpc' = "returned"
    /\ UNCHANGED <<dEntry, builtin_order, extra_domains_dir, environ, user_dir,
                   data, user_domains_path, domains, di, consulted, dReturn>>
    /\ UNCHANGED <<pipelineVars, tmplVars, cfgVars, eqVars, conVars>>

InitDiscovery ==
    /\ PipelineIdle
    /\ ConIdle
    /\ EqIdle
    /\ TmplIdle
    /\ CfgIdle
    /\ dEntry \in {"discover_domains", "detect_domain"}
    /\ dpc = "start"
    /\ builtin_order \in IterdirOrders
    /\ extra_domains_dir \in {None, "", UserDir, MissingDir}
    /\ environ \in {None, EnvDir}
    /\ user_dir \in Listings(MaxCandidates)
    /\ data \in (IF dEntry = "detect_domain" THEN Documents ELSE {{}})
    /\ user_domains_path = None
    /\ domains = <<>>
    /\ di = 1
    /\ consulted = <<>>
    /\ dReturn = NoGenerator

NextDiscovery ==
    \/ DiscoverDomains
    \/ DetectDomain
    \/ DetectConsult
    \/ DetectNone

SpecDiscovery == InitDiscovery /\ [][NextDiscovery]_vars

\* --------------------------------------------------- template identifiers
\* An identifier is the sequence of its tokens between dots:
\* "template.c_multi.h.j2" is <<"t", "c_multi", "h", "j2">>, "x.j2" is
\* <<"t", "j2">>, ".j2" is <<"", "j2">>, "a..j2" has an empty middle token.
MaxTokens == 5

\* Directory entries of a templates directory.
MaxEntries == 2

Tokens == {"t", "h", "1", "c_multi", "", "a-b", "j2", "jinja"}

\* \w+ matches the whole token.
IsWord(tok) == tok \in {"t", "h", "1", "c_multi", "j2", "jinja"}

\* (\w+)_multi matches the whole token: group 2, else None.
GroupOf(tok) == IF tok = "c_multi" THEN "c" ELSE None

TemplateNames == UNION {[1..n -> Tokens] : n \in 1..MaxTokens}

\* filename.endswith(".j2") / filename.endswith(".jinja")
EndsWithTemplateSuffix(f) == Len(f) >= 2 /\ f[Len(f)] \in {"j2", "jinja"}

\* (.+) matches the first n tokens of base with their dots: one character
\* at least.
PrefixMatches(base, n) == n >= 1 /\ ~(n = 1 /\ base[1] = "")

Triple(group, ext, suffix) == [group |-> group, ext |-> ext, suffix |-> suffix]

\* re.match(r"^(.+)\.(\w+)_multi\.(\w+)(?:\.(\w+))?$", base): the greedy
\* (.+) takes the longest prefix first, so the form without suffix is
\* tried before the form with suffix.  NoParse when there is no match.
multi_match(base) ==
    LET b == Len(base)
    IN  IF /\ PrefixMatches(base, b - 2)
           /\ GroupOf(base[b - 1]) # None
           /\ IsWord(base[b])
        THEN Triple(GroupOf(base[b - 1]), base[b], None)
        ELSE IF /\ PrefixMatches(base, b - 3)
                /\ GroupOf(base[b - 2]) # None
                /\ IsWord(base[b - 1])
                /\ IsWord(base[b])
        THEN Triple(GroupOf(base[b - 2]), base[b - 1], base[b])
        ELSE NoParse

\* Mutation of parse_template_name: group 4 is dropped.
parse_template_name_DropsSuffix(f) ==
    IF ~EndsWithTemplateSuffix(f) THEN Triple(None, "", None)
    ELSE LET base == SubSeq(f, 1, Len(f) - 1)
         IN  IF multi_match(base) # NoParse
             THEN Triple(multi_match(base).group, multi_match(base).ext, None)
             ELSE IF Len(base) >= 2 THEN Triple(None, base[Len(base)], None)
             ELSE Triple(None, "", None)

\* parse_template_name: strip the template suffix, try the multifile
\* pattern, then base.rsplit(".", 1).
parse_template_name(f) ==
    IF ~EndsWithTemplateSuffix(f) THEN Triple(None, "", None)
    ELSE LET base == SubSeq(f, 1, Len(f) - 1)
         IN  IF multi_match(base) # NoParse THEN multi_match(base)
             ELSE IF Len(base) >= 2 THEN Triple(None, base[Len(base)], None)
             ELSE Triple(None, "", None)

ParseTemplateName ==
    /\ tEntry = "parse_template_name"
    /\ tpc = "start"
    /\ parsed' = parse_template_name(template_name)
    /\ tpc' = "returned"
    /\ UNCHANGED <<tEntry, template_name, template_dir, single_templates,
                   discovered_groups>>
    /\ UNCHANGED <<pipelineVars, discVars, cfgVars, eqVars, conVars>>

\* --- discover_templates
\* The entries a templates directory is drawn from.
DirNames ==
    {<<"t", "h", "j2">>, <<"t", "1", "jinja">>, <<"t", "c_multi", "h", "j2">>,
     <<"t", "c_multi", "h", "1", "j2">>, <<"h", "c_multi", "h", "j2">>,
     <<"t", "c_multi", "1", "j2">>, <<"t", "j2">>, <<"", "jinja">>, <<"t", "h">>}

TemplateDirs ==
    {d \in UNION {[1..n -> DirNames] : n \in 0..MaxEntries} :
        \A i, j \in DOMAIN d : i # j => d[i] # d[j]}

\* FILE_TYPES.get(extension, "Unknown")
file_type(extension) ==
    CASE extension = "h" -> "C Header"
      [] OTHER -> "Unknown"

\* TemplateInfo(filename, output_ext, suffix) of a discovered template.
DiscoveredTemplate(f, p) ==
    [filename |-> f, output_ext |-> p.ext, suffix |-> p.suffix]

\* list.sort(key=...): stable, so t goes behind the elements whose key is
\* not greater.
RECURSIVE SortedInsert(_, _)
SortedInsert(sorted, t) ==
    IF sorted = <<>> THEN <<t>>
    ELSE IF SortKeyLE(Head(sorted), t)
    THEN <<Head(sorted)>> \o SortedInsert(Tail(sorted), t)
    ELSE <<t>> \o sorted

RECURSIVE SortTemplates(_)
SortTemplates(g) ==
    IF g = <<>> THEN <<>>
    ELSE SortedInsert(SortTemplates(SubSeq(g, 1, Len(g) - 1)), g[Len(g)])

\* One iteration of the loop over iterdir(), on the pair of dicts.
DiscoverEntry(found, f) ==
    IF ~EndsWithTemplateSuffix(f) THEN found
    ELSE LET p == parse_template_name(f)
         IN  IF p.group = None
             THEN [found EXCEPT !.single =
                       DictSet(@, p.ext, <<file_type(p.ext), f>>)]
             ELSE [found EXCEPT !.groups =
                       DictSet(@, p.group,
                               (IF HasKey(@, p.group)
                                THEN @[CHOOSE i \in 1..Len(@) : @[i][1] = p.group][2]
                                ELSE <<>>) \o <<DiscoveredTemplate(f, p)>>)]

RECURSIVE DiscoverEntries(_, _)
DiscoverEntries(found, entries) ==
    IF entries = <<>> THEN found
    ELSE DiscoverEntries(DiscoverEntry(found, Head(entries)), Tail(entries))

\* discover_templates: the loop, then the sort of every group.
discover_templates(entries) ==
    LET found == DiscoverEntries([single |-> <<>>, groups |-> <<>>], entries)
    IN  [single |-> found.single,
         groups |-> [i \in 1..Len(found.groups) |->
                        <<found.groups[i][1], SortTemplates(found.groups[i][2])>>]]

DiscoverTemplates ==
    /\ tEntry = "discover_templates"
    /\ tpc = "start"
    /\ single_templates' = discover_templates(template_dir).single
    /\ discovered_groups' = discover_templates(template_dir).groups
    /\ tpc' = "returned"
    /\ UNCHANGED <<tEntry, template_name, parsed, template_dir>>
    /\ UNCHANGED <<pipelineVars, discVars, cfgVars, eqVars, conVars>>

InitTemplates ==
    /\ PipelineIdle
    /\ ConIdle
    /\ EqIdle
    /\ DiscIdle
    /\ CfgIdle
    /\ tEntry \in {"parse_template_name", "discover_templates"}
    /\ tpc = "start"
    /\ template_name \in (IF tEntry = "parse_template_name" THEN TemplateNames
                          ELSE {<<>>})
    /\ template_dir \in (IF tEntry = "discover_templates" THEN TemplateDirs
                         ELSE {<<>>})
    /\ parsed = NoParse
    /\ single_templates = <<>>
    /\ discovered_groups = <<>>

NextTemplates ==
    \/ ParseTemplateName
    \/ DiscoverTemplates

SpecTemplates == InitTemplates /\ [][NextTemplates]_vars

\* ------------------------------------------------------- output file names
\* Characters of a name or file value.
MaxNameLen == 2

\* An upper-case letter, a lower-case letter, the path separator.
Chars == {"A", "b", "/"}

Strings == UNION {[1..n -> Chars] : n \in 0..MaxNameLen}

\* The name and file values of a document: a string, or the field is
\* missing (file: null is the same as no file).
Documents2 == [name : Strings \cup {Absent}, file : Strings \cup {Absent}]

\* model_validate: name: str is required, file: Optional[str] = None.
Validates(doc) == doc.name # Absent

\* str.lower()
LowerChar(ch) == IF ch = "A" THEN "a" ELSE ch

lower(s) == [i \in 1..Len(s) |-> LowerChar(s[i])]

\* Mutation of CommandsConfig_output_filename: file is lower-cased too.
CommandsConfig_output_filename_LowersFile(c) ==
    IF c.file # Absent /\ c.file # <<>> THEN lower(c.file) ELSE lower(c.name)

\* CommandsConfig.output_filename (the same expression as
\* BaseConfig.output_filename): self.file or self.name.lower()
CommandsConfig_output_filename(c) ==
    IF c.file # Absent /\ c.file # <<>> THEN c.file ELSE lower(c.name)

ValidateDocument ==
    /\ cpc = "start"
    /\ IF Validates(document)
       THEN cpc' = "validated" /\ validated' = document
       ELSE cpc' = "rejected" /\ UNCHANGED validated
    /\ UNCHANGED <<document, written_name, output_file>>
    /\ UNCHANGED <<pipelineVars, discVars, tmplVars, eqVars, conVars>>

\* The components of a relative path string, split at "/" (empty
\* components dropped, as pathlib does).
RECURSIVE PathParts(_, _)
PathParts(s, cur) ==
    IF s = <<>> THEN (IF cur = <<>> THEN <<>> ELSE <<cur>>)
    ELSE IF Head(s) = "/"
    THEN (IF cur = <<>> THEN <<>> ELSE <<cur>>) \o PathParts(Tail(s), <<>>)
    ELSE PathParts(Tail(s), Append(cur, Head(s)))

\* self.output_path / filename: a filename that starts with "/" replaces
\* output_path.
JoinOutputPath(fname) ==
    [absolute |-> fname # <<>> /\ Head(fname) = "/",
     parts |-> PathParts(fname, <<>>)]

\* render_to_file without suffix, output_ext "h":
\* filename = f"{config.output_filename}.{output_ext}"
RenderToFile ==
    /\ cpc = "validated"
    /\ written_name' = CommandsConfig_output_filename(validated)
    /\ output_file' =
           JoinOutputPath(CommandsConfig_output_filename(validated) \o <<".", "h">>)
    /\ cpc' = "written"
    /\ UNCHANGED <<document, validated>>
    /\ UNCHANGED <<pipelineVars, discVars, tmplVars, eqVars, conVars>>

InitConfig ==
    /\ PipelineIdle
    /\ ConIdle
    /\ EqIdle
    /\ DiscIdle
    /\ TmplIdle
    /\ cpc = "start"
    /\ document \in Documents2
    /\ validated = NoDocument
    /\ written_name = Absent
    /\ output_file = NoPath

NextConfig ==
    \/ ValidateDocument
    \/ RenderToFile

SpecConfig == InitConfig /\ [][NextConfig]_vars

\* ----------------------------------- the two render_multifile_group
\* A MultifileGroup.templates list in any order: a caller can build one.
AnyGroup(maxLen) == UNION {[1..n -> TemplateInfo] : n \in 0..maxLen}

GroupConfigs == Configs \cup {[name |-> "Demo", file |-> "out"]}

\* core.render_multifile_group from descriptor t on: the filenames it appends.
RECURSIVE core_render_multifile_group(_, _, _, _)
core_render_multifile_group(c, g, t, counts) ==
    IF t > Len(g) THEN <<>>
    ELSE LET step == CoreSuffix(g, t, counts)
         IN  <<Filename(c, g[t].output_ext, step.suffix)>>
             \o core_render_multifile_group(c, g, t + 1, step.counts)

\* CodeGenerator.render_multifile_group from descriptor t on.
RECURSIVE CodeGenerator_render_multifile_group(_, _, _, _)
CodeGenerator_render_multifile_group(c, g, t, counts) ==
    IF t > Len(g) THEN <<>>
    ELSE LET step == CodegenSuffix(g, t, counts)
         IN  <<Filename(c, g[t].output_ext, step.suffix)>>
             \o CodeGenerator_render_multifile_group(c, g, t + 1, step.counts)

CoreRenderMultifileGroup ==
    /\ core_names = NoList
    /\ core_names' = core_render_multifile_group(mf_config, mf_group, 1, NoCounts)
    /\ UNCHANGED <<mf_group, mf_config, codegen_names>>
    /\ UNCHANGED <<pipelineVars, discVars, tmplVars, cfgVars, conVars>>

CodegenRenderMultifileGroup ==
    /\ codegen_names = NoList
    /\ codegen_names' =
           CodeGenerator_render_multifile_group(mf_config, mf_group, 1, NoCounts)
    /\ UNCHANGED <<mf_group, mf_config, core_names>>
    /\ UNCHANGED <<pipelineVars, discVars, tmplVars, cfgVars, conVars>>

InitEquiv ==
    /\ PipelineIdle
    /\ ConIdle
    /\ DiscIdle
    /\ TmplIdle
    /\ CfgIdle
    /\ mf_group \in AnyGroup(MaxDescriptors)
    /\ mf_config \in GroupConfigs
    /\ core_names = NoList
    /\ codegen_names = NoList

NextEquiv ==
    \/ CoreRenderMultifileGroup
    \/ CodegenRenderMultifileGroup

SpecEquiv == InitEquiv /\ [][NextEquiv]_vars

\* ------------------------------------------------------- concurrent runs
MaxRunDescriptors == 2

Runs == {1, 2}

\* The output directories the two callers pass: different ones.
OutputDirs == <<"/out/a", "/out/b">>

RunConfig == [name |-> "Demo", file |-> None]

RunGroupSelections ==
    {<<>>} \cup {<<g>> : g \in {h \in MultifileGroup(MaxRunDescriptors) :
                                  \A k \in 1..Len(h) : h[k].output_ext = "h"}}

\* Mutant of output_path: a class attribute, set by the first instance.
output_path_ClassAttribute(r) == OutputDirs[1]

\* self.output_path = Path(output_path).resolve(): an instance attribute.
output_path(r) == OutputDirs[r]

\* The frame of a run before generate starts.
NewFrame(t, g) ==
    [pc |-> "Prepare", templates |-> t, multifile_groups |-> g,
     filenames |-> <<>>, generated_extensions |-> {}, si |-> 1, gi |-> 1,
     ti |-> 1, mf_filenames |-> <<>>, ext_counts |-> NoCounts,
     written |-> <<>>, result |-> NoList]

AfterSinglesOf(f) ==
    IF Len(f.multifile_groups) > 0 THEN "RenderMultifiles" ELSE "PostGenerate"

AfterPrepareOf(f) == IF Len(f.templates) > 0 THEN "RenderSingles" ELSE AfterSinglesOf(f)

\* open(self.output_path / filename, "w"); f.write(content)
WriteIn(d, name, content) ==
    [fs EXCEPT ![d] = [n \in DOMAIN fs[d] \cup {name} |->
                          IF n = name THEN content ELSE fs[d][n]]]

\* self.ensure_output_dir()
ConEnsureOutputDir ==
    \E r \in Runs :
        /\ frames[r].pc = "Prepare"
        /\ dirs' = dirs \cup {output_path(r)}
        /\ frames' = [frames EXCEPT ![r].pc = AfterPrepareOf(frames[r])]
        /\ UNCHANGED fs
        /\ UNCHANGED <<pipelineVars, discVars, tmplVars, cfgVars, eqVars>>

\* One iteration of the loop over the single templates.
ConRenderSingle ==
    \E r \in Runs :
        LET f          == frames[r]
            output_ext == f.templates[f.si]
            filename   == Filename(RunConfig, output_ext, None)
        IN  /\ f.pc = "RenderSingles"
            /\ output_path(r) \in dirs
            /\ fs' = WriteIn(output_path(r), filename,
                             [run |-> r, kind |-> "single", i |-> f.si, j |-> 0])
            /\ frames' = [frames EXCEPT ![r] =
                   [f EXCEPT !.filenames = Append(@, filename),
                             !.generated_extensions = @ \cup {output_ext},
                             !.written = Append(@, filename),
                             !.si = @ + 1,
                             !.pc = IF f.si = Len(f.templates)
                                       THEN AfterSinglesOf(f) ELSE @]]
            /\ UNCHANGED dirs
            /\ UNCHANGED <<pipelineVars, discVars, tmplVars, cfgVars, eqVars>>

\* One iteration of the loop of render_multifile_group, and after the last
\* one of a group the extend and update of generate.
ConRenderMultifile ==
    \E r \in Runs :
        LET f        == frames[r]
            g        == f.multifile_groups[f.gi]
            step     == CodegenSuffix(g, f.ti, f.ext_counts)
            filename == Filename(RunConfig, g[f.ti].output_ext, step.suffix)
            last     == f.ti = Len(g)
        IN  /\ f.pc = "RenderMultifiles"
            /\ output_path(r) \in dirs
            /\ fs' = WriteIn(output_path(r), filename,
                             [run |-> r, kind |-> "multi", i |-> f.gi, j |-> f.ti])
            /\ frames' = [frames EXCEPT ![r] =
                   IF last
                   THEN [f EXCEPT !.filenames =
                                      Extend(@, Append(f.mf_filenames, filename)),
                                  !.generated_extensions =
                                      @ \cup SeqRange(output_extensions(g)),
                                  !.written = Append(@, filename),
                                  !.mf_filenames = <<>>,
                                  !.ext_counts = NoCounts,
                                  !.gi = @ + 1,
                                  !.ti = 1,
                                  !.pc = IF f.gi = Len(f.multifile_groups)
                                            THEN "PostGenerate" ELSE @]
                   ELSE [f EXCEPT !.mf_filenames = Append(@, filename),
                                  !.written = Append(@, filename),
                                  !.ext_counts = step.counts,
                                  !.ti = @ + 1]]
            /\ UNCHANGED dirs
            /\ UNCHANGED <<pipelineVars, discVars, tmplVars, cfgVars, eqVars>>

\* extra_files = self.generator.post_generate(...); filenames.extend; return
ConPostGenerate ==
    \E r \in Runs :
        LET f     == frames[r]
            extra == post_generate(RunConfig, f.generated_extensions)
        IN  /\ f.pc = "PostGenerate"
            /\ output_path(r) \in dirs
            /\ fs' = IF extra = <<>> THEN fs
                      ELSE WriteIn(output_path(r), extra[1],
                                   [run |-> r, kind |-> "hook", i |-> 0, j |-> 0])
            /\ frames' = [frames EXCEPT ![r] =
                   [f EXCEPT !.filenames = Extend(@, extra),
                             !.written = @ \o extra,
                             !.result = Extend(f.filenames, extra),
                             !.pc = "Done"]]
            /\ UNCHANGED dirs
            /\ UNCHANGED <<pipelineVars, discVars, tmplVars, cfgVars, eqVars>>

InitConcurrent ==
    /\ PipelineIdle
    /\ DiscIdle
    /\ TmplIdle
    /\ CfgIdle
    /\ EqIdle
    /\ frames \in [Runs -> {NewFrame(t, g) : t \in SingleSelections,
                                              g \in RunGroupSelections}]
    /\ fs = [d \in SeqRange(OutputDirs) |-> <<>>]
    /\ dirs = {}

NextConcurrent ==
    \/ ConEnsureOutputDir
    \/ ConRenderSingle
    \/ ConRenderMultifile
    \/ ConPostGenerate

SpecConcurrent == InitConcurrent /\ [][NextConcurrent]_vars

\* ---------------------------------------------------------------- properties
\* The templates of the request in render order: the singles in selection
\* order, then each group's descriptors, group after group.
RECURSIVE GroupTemplates(_)
GroupTemplates(i) ==
    IF i > Len(multifile_groups) THEN <<>>
    ELSE [j \in 1..Len(multifile_groups[i]) |-> [kind |-> "multi", i |-> i, j |-> j]]
         \o GroupTemplates(i + 1)

RequestedTemplates ==
    [k \in 1..Len(templates) |-> [kind |-> "single", i |-> k, j |-> 0]]
    \o GroupTemplates(1)

RenderedNames == [k \in 1..Len(rendered) |-> rendered[k].name]

RenderedExts(n) == {rendered[k].ext : k \in 1..n}

NoSideEffect ==
    /\ mkdirs = 0
    /\ out = None
    /\ files = <<>>
    /\ rendered = <<>>
    /\ hookCalls = <<>>

NoExplicitSuffix(g) == \A k \in 1..Len(g) : g[k].suffix = None

\* The descriptors of g up to j that have the extension of g[j].
ExtRank(g, j) == Cardinality({k \in 1..j : g[k].output_ext = g[j].output_ext})

\* C1: in a multifile group without explicit suffixes, a descriptor that is the
\* only one of its extension is written to <output_filename>.<ext>, and the N > 1
\* descriptors of one extension are written to <output_filename>_1.<ext> ..
\* <output_filename>_N.<ext> in the order of the group's list.
C1_AutoSuffix ==
    \A k \in 1..Len(rendered) :
        LET r == rendered[k] IN
        r.template.kind = "multi" =>
            LET g == multifile_groups[r.template.i]
                j == r.template.j
                n == Cardinality({m \in 1..Len(g) : g[m].output_ext = g[j].output_ext})
            IN NoExplicitSuffix(g) =>
                  r.name = IF n = 1
                              THEN output_filename(config) \o "." \o g[j].output_ext
                              ELSE output_filename(config) \o "_" \o ToString(ExtRank(g, j))
                                   \o "." \o g[j].output_ext

\* Two descriptors of one extension, neither with a suffix, and a third of
\* another extension, all rendered by CodeGenerator.
C1_Witness ==
    /\ entry = "codegen"
    /\ pc = "Done"
    /\ \E i \in 1..Len(multifile_groups) :
        /\ Len(multifile_groups[i]) = 3
        /\ NoExplicitSuffix(multifile_groups[i])
        /\ multifile_groups[i][1].output_ext = multifile_groups[i][2].output_ext
        /\ multifile_groups[i][3].output_ext # multifile_groups[i][2].output_ext

\* C2: a descriptor with an explicit suffix s is written to
\* <output_filename>_<s>.<ext>, whatever the other descriptors of its group are.
C2_ExplicitSuffix ==
    \A k \in 1..Len(rendered) :
        LET r == rendered[k] IN
        r.template.kind = "multi" =>
            LET t == multifile_groups[r.template.i][r.template.j] IN
            t.suffix # None =>
                r.name = output_filename(config) \o "_" \o t.suffix \o "." \o t.output_ext

\* A descriptor with an explicit suffix rendered by core after a descriptor of
\* the same extension without one.
C2_Witness ==
    /\ entry = "core"
    /\ \E k \in 1..Len(rendered) :
        /\ rendered[k].template.kind = "multi"
        /\ rendered[k].template.j = 2
        /\ LET g == multifile_groups[rendered[k].template.i] IN
            /\ g[1].suffix = None
            /\ g[2].suffix # None
            /\ g[1].output_ext = g[2].output_ext

\* C3: the files written by rendering have pairwise distinct names: as many
\* distinct files as templates rendered.
C3_OneFilePerTemplate ==
    Cardinality({rendered[k].name : k \in 1..Len(rendered)}) = Len(rendered)

\* C4: the returned list holds the names of the single templates in selection
\* order, then those of the groups in selection order and each group's in list
\* order, one per rendered template, then the names post_generate returned.
C4_ReturnOrder ==
    pc = "Done" =>
        /\ [k \in 1..Len(rendered) |-> rendered[k].template] = RequestedTemplates
        /\ result = RenderedNames \o extra_files

\* Two singles, two groups (one of two descriptors) and a hook file returned.
C4_Witness ==
    /\ pc = "Done"
    /\ Len(templates) = 2
    /\ Len(multifile_groups) = 2
    /\ Len(multifile_groups[1]) = 2
    /\ Len(extra_files) = 1
    /\ Len(result) = 6

\* C5: post_generate is called at most once in a run and once in a run that
\* returns; when it is called every template of the request has been rendered,
\* and nothing is rendered after the call.
C5_HookOnceAfterRendering ==
    /\ Len(hookCalls) <= 1
    /\ pc = "Done" => Len(hookCalls) = 1
    /\ \A c \in 1..Len(hookCalls) :
        /\ hookCalls[c].rendered = Len(RequestedTemplates)
        /\ Len(rendered) = hookCalls[c].rendered

\* The hook called after two singles and three group descriptors.
C5_Witness ==
    /\ Len(hookCalls) = 1
    /\ Len(templates) = 2
    /\ Len(rendered) = 5

\* C6: the generated_extensions set post_generate receives is the set of the
\* extensions of the files rendered in the run, and in a run that returns the
\* commands hook reports its file exactly when "py" was rendered.
C6_GeneratedExtensions ==
    /\ \A c \in 1..Len(hookCalls) :
        hookCalls[c].generated_extensions = RenderedExts(hookCalls[c].rendered)
    /\ pc = "Done" =>
        /\ extra_files # <<>> <=> "py" \in RenderedExts(Len(rendered))
        /\ extra_files # <<>> => extra_files[1] \in DOMAIN files

\* "py" rendered only as the second descriptor of a multifile group, and the
\* hook's file produced.
C6_Witness ==
    /\ pc = "Done"
    /\ templates = <<"h">>
    /\ Len(multifile_groups) = 1
    /\ output_extensions(multifile_groups[1]) = <<"h", "py">>
    /\ extra_files = <<"demo_base.py">>

\* C7 as stated: a request that selects nothing is rejected without creating
\* the output directory, writing a file or calling post_generate.
C7_EmptySelectionRejected ==
    (Len(templates) = 0 /\ Len(multifile_groups) = 0) =>
        /\ NoSideEffect
        /\ pc # "Done"

\* C7 amended: through main, a request to a subcommand that selects nothing
\* never reaches parse_and_render: it ends in main, with "No output formats
\* specified" unless auto mode failed on the input first, and has no output
\* side effect.
C7_CliRejectsEmptySelection ==
    (/\ entry = "cli"
     /\ subcommand # "missing"
     /\ Len(templates) = 0
     /\ Len(multifile_groups) = 0) =>
        /\ NoSideEffect
        /\ pc \in {"main", "select", "Failed"}
        /\ valid = None
        /\ pc = "Failed" =>
            \/ err = [type |-> "SystemExit", msg |-> "No output formats specified"]
            \/ /\ input # NoInput
               /\ \/ parse_yaml(input) = err /\ err # NoError
                  \/ err = [type |-> "SystemExit", msg |-> "Could not auto-detect domain"]

\* main rejected an empty selection for a parsed input.
C7_Witness ==
    /\ entry = "cli"
    /\ subcommand = "auto"
    /\ Len(templates) = 0
    /\ Len(multifile_groups) = 0
    /\ input # NoInput
    /\ pc = "Failed"
    /\ err.msg = "No output formats specified"

\* C8: when the domain's validate raises, the run fails with RuntimeError
\* "Failed to validate <domain name>" and has no output side effect.
C8_ValidationFailed ==
    valid = "False" =>
        /\ pc = "Failed"
        /\ err = [type |-> "RuntimeError", msg |-> "Failed to validate commands"]
        /\ result = NoList
        /\ NoSideEffect

\* validate raised in a run of CodeGenerator.generate_from_file.
C8_Witness ==
    /\ valid = "False"
    /\ entry = "codegen"
    /\ Len(templates) > 0

\* C9: parse_yaml raises FileNotFoundError for an input that does not exist, is
\* not a regular file or has another extension than .yml / .yaml, and
\* RuntimeError for content that does not parse; validate is then not called
\* and nothing is written.
C9_ParseYamlErrors ==
    input # NoInput =>
        /\ (~input.exists \/ ~input.is_file \/ input.suffix \notin {".yml", ".yaml"}) =>
            /\ pc = "Failed"
            /\ err.type = "FileNotFoundError"
            /\ valid = None
            /\ NoSideEffect
        /\ (input.is_file /\ input.suffix \in {".yml", ".yaml"} /\ ~input.parses) =>
            /\ pc = "Failed"
            /\ err = [type |-> "RuntimeError", msg |-> "Failed to load YAML file"]
            /\ valid = None
            /\ NoSideEffect

\* A regular file of parseable content with the extension .txt was refused.
C9_Witness ==
    /\ input # NoInput
    /\ input.is_file
    /\ input.parses
    /\ input.suffix = ".txt"
    /\ pc = "Failed"
    /\ Len(multifile_groups) > 0

\* C10: ensure_output_dir creates a missing output directory whose parent is a
\* directory, leaves an existing output directory and its entries as they are,
\* and raises FileNotFoundError, creating nothing, when the parent is missing
\* (or is not a directory).
C10_EnsureOutputDir ==
    out0 # None =>
        /\ (parent0 = "dir" /\ out0 = "missing") =>
            /\ out = "dir"
            /\ mkdirs = 1
            /\ err.type # "FileNotFoundError"
        /\ out0 = "dir" =>
            /\ out = "dir"
            /\ mkdirs = 0
            /\ err.type # "FileNotFoundError"
            /\ \A n \in DOMAIN OldFiles : n \in DOMAIN files /\ files[n] = OldFiles[n]
        /\ parent0 # "dir" =>
            /\ pc = "Failed"
            /\ err.type = "FileNotFoundError"
            /\ mkdirs = 0
            /\ out = "missing"
            /\ files = <<>>
            /\ rendered = <<>>
            /\ hookCalls = <<>>

\* The output directory was missing under an existing directory and was created.
C10_Witness ==
    /\ parent0 = "dir"
    /\ out0 = "missing"
    /\ out = "dir"
    /\ mkdirs = 1
    /\ Len(rendered) > 0

\* ------------------------------------------------ properties of discovery
\* discover_domains has returned (to its caller or into detect_domain).
Discovered == dpc \in {"returned", "loop", "raised"}

\* The entries of the extra location that was scanned, and those of them
\* that yield a generator.
ScannedListing == iterdir(user_domains_path)

LoadedEntries == {i \in 1..Len(ScannedListing) : ScannedListing[i].load = "generator"}

ValueOf(d, k) == d[CHOOSE i \in 1..Len(d) : d[i][1] = k][2]

BuiltinInstance(n) ==
    [origin |-> "builtin", name |-> n, class |-> "DomainGenerator", detect |-> n]

\* C11: an entry whose load raises (on import, or on reading generator.name)
\* is skipped: discover_domains returns, the mapping's keys are exactly the
\* names of the built-ins and of the entries that loaded, one entry per
\* name, each stored under its own name, and nothing stands for the failed
\* entry.
C11_FailedCandidateSkipped ==
    Discovered =>
        LET names == BuiltinNames \cup {ScannedListing[i].name : i \in LoadedEntries}
        IN  /\ {domains[i][1] : i \in 1..Len(domains)} = names
            /\ Len(domains) = Cardinality(names)
            /\ \A i \in 1..Len(domains) : domains[i][2].name = domains[i][1]

C11_Witness ==
    /\ dpc = "returned"
    /\ dEntry = "discover_domains"
    /\ Len(ScannedListing) = 2
    /\ ScannedListing[1].load \in {"raises", "name_raises"}
    /\ ScannedListing[2].load = "generator"
    /\ ScannedListing[2].name = "custom"
    /\ HasKey(domains, "custom")
    /\ Len(domains) = 4

\* C12: a user domain named like a built-in replaces it: the mapping holds
\* the user's instance (the last one loaded under that name) and not the
\* built-in instance; a built-in whose name no user domain takes is the
\* built-in instance.
C12_UserOverridesBuiltin ==
    Discovered =>
        \A n \in BuiltinNames :
            LET over == {i \in LoadedEntries : ScannedListing[i].name = n}
            IN  IF over = {}
                THEN ValueOf(domains, n) = BuiltinInstance(n)
                ELSE LET last == CHOOSE i \in over : \A j \in over : j <= i
                         c == ScannedListing[last]
                     IN  /\ ValueOf(domains, n) =
                                [origin |-> "user", name |-> n, class |-> c.class,
                                 detect |-> c.detect]
                         /\ \A i \in 1..Len(domains) :
                                domains[i][2] # BuiltinInstance(n)

C12_Witness ==
    /\ dpc = "returned"
    /\ dEntry = "discover_domains"
    /\ \E i \in LoadedEntries :
           /\ ScannedListing[i].name = "commands"
           /\ ScannedListing[i].detect = "never"
    /\ ValueOf(domains, "commands").origin = "user"
    /\ ValueOf(domains, "commands").detect = "never"
    /\ ValueOf(domains, "registers") = BuiltinInstance("registers")

C15_UserDomainsConsultedLast ==
    \A i \in 1..Len(consulted) :
        consulted[i].origin = "user" =>
            \A k \in 1..Len(domains) :
                domains[k][2].origin = "builtin" =>
                    \E j \in 1..(i - 1) : consulted[j] = domains[k][2]

\* C20: every value of the mapping discover_domains returns is a
\* DomainGenerator (name, description, detect, validate, render,
\* templates_path, post_generate).
C20_ValuesConformToContract ==
    Discovered =>
        \A i \in 1..Len(domains) : domains[i][2].class = "DomainGenerator"

\* ----------------------------------------- properties of the classifier
\* C16: parse_template_name on an identifier ending in .j2 or .jinja whose
\* base is <prefix>.<group>_multi.<ext>[.<suffix>] returns that group, ext
\* and suffix (None without suffix); on any other such identifier whose
\* base has a dot it returns (None, <last token>, None); on every other
\* string it returns (None, "", None).
C16_ParseTemplateName ==
    (tEntry = "parse_template_name" /\ tpc = "returned") =>
        LET f == template_name
            b == Len(f) - 1
            isTemplate == Len(f) >= 2 /\ f[Len(f)] \in {"j2", "jinja"}
            groupAt == {k \in {b - 2, b - 1} :
                           /\ k >= 2
                           /\ ~(k = 2 /\ f[1] = "")
                           /\ GroupOf(f[k]) # None
                           /\ \A j \in (k + 1)..b : IsWord(f[j])}
            forms == {[group |-> GroupOf(f[k]), ext |-> f[k + 1],
                       suffix |-> IF k + 2 <= b THEN f[k + 2] ELSE None] :
                          k \in groupAt}
        IN  IF isTemplate /\ forms # {} THEN parsed \in forms
            ELSE IF isTemplate /\ b >= 2
            THEN parsed = [group |-> None, ext |-> f[b], suffix |-> None]
            ELSE parsed = [group |-> None, ext |-> "", suffix |-> None]

C16_Witness ==
    /\ tEntry = "parse_template_name"
    /\ tpc = "returned"
    /\ template_name = <<"t", "c_multi", "h", "1", "j2">>
    /\ parsed = [group |-> "c", ext |-> "h", suffix |-> "1"]

\* C17: a directory entry that ends in .j2 or .jinja and whose base has no
\* dot (so matches neither pattern) is in neither of the mappings
\* discover_templates returns.
C17_MalformedSkipped ==
    (tEntry = "discover_templates" /\ tpc = "returned") =>
        \A e \in 1..Len(template_dir) :
            LET f == template_dir[e]
            IN  (Len(f) = 2 /\ f[2] \in {"j2", "jinja"}) =>
                    /\ \A i \in 1..Len(single_templates) :
                           single_templates[i][2][2] # f
                    /\ \A i \in 1..Len(discovered_groups) :
                           \A j \in 1..Len(discovered_groups[i][2]) :
                               discovered_groups[i][2][j].filename # f

\* ------------------------------------- properties of the output file name
\* C18 as stated: without file, output_filename is the lower-cased name;
\* with file, it is file exactly, whatever file holds.
C18_OutputFilename ==
    cpc = "written" =>
        IF validated.file = Absent
        THEN written_name = [i \in 1..Len(validated.name) |->
                                IF validated.name[i] = "A" THEN "a"
                                ELSE validated.name[i]]
        ELSE written_name = validated.file

\* C18, amended: without file, or with an empty file, output_filename is
\* the lower-cased name; with a non-empty file, it is file exactly,
\* whatever its casing or content.
C18_OutputFilenameNonEmptyFile ==
    cpc = "written" =>
        IF validated.file = Absent \/ validated.file = <<>>
        THEN written_name = [i \in 1..Len(validated.name) |->
                                IF validated.name[i] = "A" THEN "a"
                                ELSE validated.name[i]]
        ELSE written_name = validated.file

C18_Witness ==
    /\ cpc = "written"
    /\ validated.name = <<"A", "b">>
    /\ validated.file = <<"b", "A">>
    /\ written_name = <<"b", "A">>

\* C19: for a configuration that passed validation, output_filename is not
\* empty and holds no path separator, and the file render_to_file writes is
\* directly inside the output directory.
C19_SafeOutputFilename ==
    cpc = "written" =>
        /\ written_name # <<>>
        /\ \A i \in 1..Len(written_name) : written_name[i] # "/"
        /\ ~output_file.absolute
        /\ Len(output_file.parts) = 1

\* ------------------------------------------------------------------------ C21
FatalConditions ==
    {"usage", "does not exist", "is not a file", "No output formats specified",
     ValidationFailedMsg(GeneratorName), "Could not auto-detect domain"}

\* C21: whenever the command line program has exited, its exit code is 0 if
\* the generation ran to Done and 1 if the run ended in a fatal condition (no
\* subcommand, input missing, no output format, validation failure,
\* auto-detect failure, or any other error), for the auto and the domain
\* subcommands alike and whether or not the debug flag re-raises the error.
C21_ExitCodes ==
    (entry = "cli" /\ exit_code # NoExitCode) =>
        /\ pc \in {"Done", "Failed"}
        /\ pc = "Done" => exit_code = 0 /\ err = NoError
        /\ pc = "Failed" => exit_code = 1 /\ err # NoError
        /\ subcommand \in {"missing", "auto", "domain"}

\* A validation failure under the auto subcommand with the debug flag set:
\* the error is re-raised out of main and the process still exits with 1.
C21_Witness ==
    /\ entry = "cli"
    /\ subcommand = "auto"
    /\ debug = "True"
    /\ pc = "Failed"
    /\ err.msg = ValidationFailedMsg(GeneratorName)
    /\ err.msg \in FatalConditions
    /\ exit_code = 1

\* ------------------------------------------------------------------------ C23
Steps ==
    <<"main", "select", "Parse", "Validate", "Prepare", "RenderSingles",
      "RenderMultifiles", "PostGenerate", "Done">>

StepRank(step) == CHOOSE i \in 1..Len(Steps) : Steps[i] = step

EarlyFailure ==
    /\ pc = "Failed"
    /\ err.msg \in {"does not exist", "is not a file", "is not a YAML file",
                    "Failed to load YAML file",
                    ValidationFailedMsg(GeneratorName)}
    /\ out0 = None

\* C23: a run only ever moves forward through Parse, Validate, RenderSingles,
\* RenderMultifiles, PostGenerate, Done: every change of step goes to a later
\* step of that order or to Failed, so no step is entered twice; Done and
\* Failed are never left; and a run that failed in Parse or Validate has
\* rendered nothing, created nothing and not called the hook.
C23_LinearPipeline ==
    /\ [][/\ pc \in {"Done", "Failed"} => pc' = pc
          /\ (pc' # pc /\ pc' # "Failed") => StepRank(pc) < StepRank(pc')]_vars
    /\ [](EarlyFailure =>
            rendered = <<>> /\ mkdirs = 0 /\ hookCalls = <<>> /\ result = NoList)

\* A run with single templates and multifile groups that reached Done.
C23_Witness ==
    /\ pc = "Done"
    /\ Len(templates) > 0
    /\ Len(multifile_groups) > 0
    /\ Len(rendered) > 1
    /\ Len(hookCalls) = 1

\* ------------------------------------------------------------------------ C24
RenderFailed == pc = "Failed" /\ err.msg = "render_to_file"

\* C24: when render_to_file fails on the k-th file of a run, the run is
\* Failed with that error, the k-1 files rendered before it are still in the
\* output directory, the templates rendered are exactly the first k-1 of the
\* request (none after the failing one), post_generate was not called and no
\* filename list is returned.
C24_RenderFailurePropagates ==
    RenderFailed =>
        /\ err.type \in RenderErrors
        /\ Len(rendered) < Len(RequestedTemplates)
        /\ \A k \in 1..Len(rendered) :
              /\ rendered[k].template = RequestedTemplates[k]
              /\ rendered[k].name \in DOMAIN files
        /\ hookCalls = <<>>
        /\ extra_files = NoList
        /\ result = NoList

\* The third file of a run failed: two files were written before it and stay.
C24_Witness ==
    /\ RenderFailed
    /\ Len(rendered) = 2
    /\ Len(RequestedTemplates) > 3
    /\ rendered[1].name # rendered[2].name
    /\ {rendered[1].name, rendered[2].name} \subseteq DOMAIN files

\* ------------------------------------------------------------------------ C27
\* C27: the filenames render_multifile_group produces for one multifile group
\* are pairwise distinct, for every mix of descriptors with and without an
\* explicit suffix: no file of a group overwrites another file of that group.
C27_GroupFilenamesDistinct ==
    \A a, b \in 1..Len(rendered) :
        (/\ a # b
         /\ rendered[a].template.kind = "multi"
         /\ rendered[b].template.kind = "multi"
         /\ rendered[a].template.i = rendered[b].template.i)
            => rendered[a].name # rendered[b].name

\* ------------------------------------------------------------------------ C30
Prepared ==
    /\ out0 # None
    /\ ensure_output_dir([parent |-> parent0, out |-> out0]) = NoError

\* C30: whenever ensure_output_dir has returned without raising, the output
\* location is an existing directory, so that no later template write can
\* fail for want of the output directory.
C30_PreparedOutputIsDirectory ==
    Prepared => out = "dir" /\ CanWrite

\* ------------------------------------------------------------------------ C25
Raising(g) == g.detect = "raises" \/ g.class = "object"

\* C25: detect_domain has no guard around detect: a generator whose detect
\* raises is the last one consulted, detect_domain ends with that exception
\* and returns nothing; and detect_domain ends with an exception only so.
C25_DetectErrorPropagates ==
    dEntry = "detect_domain" =>
        /\ \A i \in 1..Len(consulted) :
              Raising(consulted[i]) =>
                  /\ i = Len(consulted)
                  /\ dpc = "raised"
                  /\ dReturn = NoGenerator
        /\ dpc = "raised" =>
              /\ consulted # <<>>
              /\ Raising(consulted[Len(consulted)])
              /\ consulted = [i \in 1..Len(consulted) |-> domains[i][2]]

\* The detect of a user domain raised after the built-ins declined, and a
\* domain later in the mapping, never consulted, would have matched.
C25_Witness ==
    /\ dEntry = "detect_domain"
    /\ dpc = "raised"
    /\ Len(consulted) >= 2
    /\ consulted[Len(consulted)].detect = "raises"
    /\ \E i \in (Len(consulted) + 1)..Len(domains) : detect(domains[i][2], data)

\* ------------------------------------------------------------------------ C29
BuiltinMatches(doc) == {n \in BuiltinNames : detect(BuiltinInstance(n), doc)}

\* What the detection loop returns over the built-ins enumerated in order o.
FirstBuiltinMatch(o, doc) ==
    IF BuiltinMatches(doc) = {} THEN NoGenerator
    ELSE BuiltinInstance(o[CHOOSE i \in DOMAIN o :
                               /\ o[i] \in BuiltinMatches(doc)
                               /\ \A j \in 1..(i - 1) : o[j] \notin BuiltinMatches(doc)])

\* C29: over the built-in domains alone, at most one detection predicate is
\* true for the document, and the domain detect_domain returns is the one
\* it would return for every other order of enumerating the built-ins.
C29_BuiltinDetectionOrderIndependent ==
    (/\ dEntry = "detect_domain"
     /\ dpc = "returned"
     /\ \A i \in 1..Len(domains) : domains[i][2].origin = "builtin") =>
        /\ Cardinality(BuiltinMatches(data)) <= 1
        /\ \A o \in IterdirOrders : dReturn = FirstBuiltinMatch(o, data)

\* ------------------------------------------------------------------------ C26
\* The directory's entries enumerated in another order.
Reorderings(d) ==
    {[i \in DOMAIN d |-> d[p[i]]] :
        p \in {q \in [DOMAIN d -> DOMAIN d] :
                  \A i, j \in DOMAIN d : i # j => q[i] # q[j]}}

\* C26: every group discover_templates returns is sorted ascending by
\* (output_ext, suffix or ""), and its descriptor list is the same list for
\* every order in which the directory enumerates the same template names.
C26_GroupOrderDeterministic ==
    (tEntry = "discover_templates" /\ tpc = "returned") =>
        \A g \in 1..Len(discovered_groups) :
            /\ IsSortedGroup(discovered_groups[g][2])
            /\ \A d \in Reorderings(template_dir) :
                  ValueOf(discover_templates(d).groups, discovered_groups[g][1])
                      = discovered_groups[g][2]

\* ------------------------------------------------------------------------ C28
\* C28: on the same group and config, core.render_multifile_group and
\* CodeGenerator.render_multifile_group return the same filename sequence,
\* one name per descriptor, each built on the same output_filename, for any
\* mix of extensions and suffixes and any order of the descriptors.
C28_ImplementationsAgree ==
    (core_names # NoList /\ codegen_names # NoList) =>
        /\ core_names = codegen_names
        /\ Len(core_names) = Len(mf_group)
        /\ \A k \in 1..Len(core_names) :
              \E sfx \in Suffixes \cup {None} \cup {str(n) : n \in 1..Len(mf_group)} :
                  core_names[k] = Filename(mf_config, mf_group[k].output_ext, sfx)

\* Both returned for an unsorted group that mixes an explicit suffix with
\* suffix-less descriptors of the same extension, which both numbered.
C28_Witness ==
    /\ core_names # NoList
    /\ codegen_names # NoList
    /\ Len(mf_group) = 3
    /\ ~IsSortedGroup(mf_group)
    /\ \E i, j, k \in 1..3 :
          /\ i < j
          /\ mf_group[i].suffix = None
          /\ mf_group[j].suffix = None
          /\ mf_group[k].suffix # None
          /\ mf_group[i].output_ext = mf_group[j].output_ext
          /\ codegen_names[j] = Filename(mf_config, mf_group[j].output_ext, "2")

\* ------------------------------------------------------------------------ C22
RECURSIVE GroupsFilenames(_, _)
GroupsFilenames(groups, i) ==
    IF i > Len(groups) THEN <<>>
    ELSE CodeGenerator_render_multifile_group(RunConfig, groups[i], 1, NoCounts)
         \o GroupsFilenames(groups, i + 1)

\* The filename list generate returns for a request when it runs alone.
SoloFilenames(t, g) ==
    LET rendered_names == [k \in 1..Len(t) |-> Filename(RunConfig, t[k], None)]
                              \o GroupsFilenames(g, 1)
    IN  rendered_names
        \o post_generate(RunConfig, SeqRange(t) \cup
               UNION {SeqRange(output_extensions(g[i])) : i \in 1..Len(g)})

IsPrefix(a, b) == Len(a) <= Len(b) /\ a = SubSeq(b, 1, Len(a))

====
